---- MODULE Spec2Model ----
(***************************************************************************)
(* Model of package exportedservice (go-etcd-exportedservice): a           *)
(* ServiceExporter acquires an etcd lease, binds listening sockets and     *)
(* publishes their addresses under /ns/service/<service>/<leaseID in hex>. *)
(* The etcd store, the keepalive stream and the platform's socket table    *)
(* are modelled as far as the exporter's calls observe them.               *)
(***************************************************************************)
EXTENDS Integers, Sequences, FiniteSets, TLC

\* ---------------------------------------------------------------- bounds
NumExporters == 2       \* exporter objects the callers construct
MaxEphemeral == 1       \* free ports the platform can hand out for port 0
MaxAcks == 1            \* capacity of the keepalive response channel
FirstLeaseID == 15      \* first lease id the store grants (then 16, ...)
MaxCalls == 4           \* calls of the package's API in one run
FixedPort == 9000       \* the explicit port callers ask for
NumThreads == 2         \* caller goroutines that share an exporter

\* ------------------------------------------------------ program constants
MinTTL == 5             \* "must be at least 5 (seconds)"
PathWidth == 16         \* the width of %16x

Exporters == 1..NumExporters
LeaseIDs == FirstLeaseID..(FirstLeaseID + NumExporters - 1)
NoLease == 0            \* the zero value of etcd.LeaseID
Services == {"foo", "bar"}
TTLs == {MinTTL - 1, MinTTL}
EphemeralPorts == 1..MaxEphemeral
LocalHost == "127.0.0.1"
Threads == 1..NumThreads

\* The addresses callers pass as "ip": a bare host, a host:port pair and a
\* string with too many colons.  An address is its sequence of tokens.
BareHost == <<LocalHost>>
HostPort == <<LocalHost, ":", FixedPort>>
Malformed == <<LocalHost, ":", ":", FixedPort>>
Addresses == {BareHost, HostPort, Malformed}

VARIABLES
    handle,     \* handle[e]: what the constructor returned: "none" (not yet
                \* called), "nil" or "object"
    leaseID,    \* ServiceExporter.leaseID
    path,       \* ServiceExporter.path (<<>> is the empty string)
    stream,     \* ServiceExporter.keepaliveResponses: "nil", "open", "closed"
    acks,       \* responses buffered in the keepalive channel
    task,       \* the consumeKeepaliveResponses goroutine: "none",
                \* "running", "done"
    leases,     \* the store's leases: "free", "alive", "expired"
    store,      \* the store's entries: records [key, value, lease, writer]
    connected,  \* whether requests of the client reach the store
    sockets,    \* the platform's open listening sockets
    ncalls,     \* calls of the package's API so far
    inflight,   \* inflight[t]: where goroutine t is in NewExportedPort
                \* (SpecThreads; no call is ever in flight in Spec)
    index,      \* the index of the legacy store, the name of the next
                \* child AddChild creates (SpecLegacy)
    last        \* the last call of the package's API and what it returned
                \* (for the exporting calls: the call of NewExportedPort
                \* they all go through); Idle after a step of the store

vars == <<handle, leaseID, path, stream, acks, task, leases, store,
          connected, sockets, ncalls, inflight, index, last>>

\* ------------------------------------------------------------- formatting
HexDigit(d) == <<"0", "1", "2", "3", "4", "5", "6", "7", "8", "9",
                 "a", "b", "c", "d", "e", "f">>[d + 1]

RECURSIVE HexDigits(_)
HexDigits(n) ==
    IF n < 16 THEN <<HexDigit(n)>>
    ELSE HexDigits(n \div 16) \o <<HexDigit(n % 16)>>

\* fmt's %16x: hexadecimal, padded on the left with spaces to 16 characters.
Sprintf16x(n) ==
    LET d == HexDigits(n)
    IN  IF Len(d) >= PathWidth THEN d
        ELSE [i \in 1..(PathWidth - Len(d)) |-> " "] \o d

\* fmt.Sprintf("/ns/service/%s/%16x", service, e.leaseID)
ExportPath(service, id) == <<"ns", "service", service>> \o Sprintf16x(id)

\* ------------------------------------------------------------- addresses
\* net.SplitHostPort succeeds on host:port (exactly one colon, then a port).
SplitHostPortOK(ip) == Len(ip) = 3 /\ ip[2] = ":"

\* net.JoinHostPort(host, port)
JoinHostPort(host, port) == host \o <<":", port>>

\* The address NewExportedPort hands to net.Listen.
ListenAddress(ip) ==
    IF SplitHostPortOK(ip) THEN ip ELSE JoinHostPort(ip, 0)

UsedPorts == {s.port : s \in sockets}

\* The ports net.Listen can bind for an address: none when the address is
\* malformed or the port is taken; any free ephemeral port for port 0.
BindablePorts(hostport) ==
    IF ~(Len(hostport) = 3 /\ hostport[1] = LocalHost /\ hostport[2] = ":")
    THEN {}
    ELSE IF hostport[3] = 0 THEN EphemeralPorts \ UsedPorts
    ELSE {hostport[3]} \ UsedPorts

\* l.Addr().String() of a listener bound to port p
AddrString(p) == <<LocalHost, ":", p>>

\* ------------------------------------------------------------- the store
HasKey(k) == \E en \in store : en.key = k
Entry(k) == CHOOSE en \in store : en.key = k

\* Mutant: a Put the store accepts under a lease that has expired.
PutAccepted_AnyLease(id) == connected

\* Put(key, value, WithLease(id)) when it reaches the store: the lease must
\* exist unless no lease is attached.
PutAccepted(id) == connected /\ (id = NoLease \/ leases[id] = "alive")

StoreAfterPut(k, v, id, e) ==
    {en \in store : en.key # k}
        \cup {[key |-> k, value |-> v, lease |-> id, writer |-> e]}

StoreAfterDelete(ks) == {en \in store : en.key \notin ks}

NoCall == <<>>
NotCalling == [pc |-> "idle", e |-> 0, service |-> "", port |-> 0]
Idle == [op |-> "none", e |-> 0, err |-> "nil", lsn |-> "nil", bound |-> 0,
         calls |-> NoCall]

Init ==
    /\ handle = [e \in Exporters |-> "none"]
    /\ leaseID = [e \in Exporters |-> NoLease]
    /\ path = [e \in Exporters |-> <<>>]
    /\ stream = [e \in Exporters |-> "nil"]
    /\ acks = [e \in Exporters |-> 0]
    /\ task = [e \in Exporters |-> "none"]
    /\ leases = [l \in LeaseIDs |-> "free"]
    /\ store = {}
    /\ connected = TRUE
    /\ sockets = {}
    /\ ncalls = 0
    /\ inflight = [t \in Threads |-> NotCalling]
    /\ index = 0
    /\ last = Idle

\* ------------------------------------------------------------ initLease
GrantCall(ttl) == [call |-> "Grant", ttl |-> ttl]
KeepAliveCall(id) == [call |-> "KeepAlive", lease |-> id]
PutCall(k, v, id) == [call |-> "Put", key |-> k, value |-> v, lease |-> id]
DeleteCall(k) == [call |-> "Delete", key |-> k]

\* The id the store gives the next lease.
NextLeaseID == CHOOSE l \in LeaseIDs :
    leases[l] = "free" /\ \A m \in LeaseIDs : leases[m] = "free" => l <= m

\* What a constructor returns next to initLease's error: the object it
\* built, whatever the error ("return rv, rv.initLease(ctx, ttl)").
ReturnedHandle(err) == "object"

\* Whether initLease sends Grant for this ttl: it does for every ttl, there
\* is no check of the ttl before the call.
GrantIssued(ttl) == TRUE

\* initLease as called by a constructor: Grant, then KeepAlive, then the
\* assignment of leaseID and the start of the goroutine.  kaOK: whether the
\* client's KeepAlive succeeds.  The constructor's result goes to handle
\* and last.
initLease(e, ttl, kaOK, op) ==
    IF ~GrantIssued(ttl)
    THEN /\ last' = [op |-> op, e |-> e, err |-> "ErrTTL", lsn |-> "nil",
                     bound |-> 0, calls |-> NoCall]
         /\ handle' = [handle EXCEPT ![e] = ReturnedHandle("ErrTTL")]
         /\ UNCHANGED <<leaseID, stream, task, leases>>
    ELSE IF ~connected
    THEN \* lease, err = e.conn.Grant(ctx, ttl); if err != nil { return err }
         /\ last' = [op |-> op, e |-> e, err |-> "ErrGrant", lsn |-> "nil",
                     bound |-> 0, calls |-> <<GrantCall(ttl)>>]
         /\ handle' = [handle EXCEPT ![e] = ReturnedHandle("ErrGrant")]
         /\ UNCHANGED <<leaseID, stream, task, leases>>
    ELSE LET id == NextLeaseID IN
         /\ leases' = [leases EXCEPT ![id] = "alive"]
         /\ IF ~kaOK
            THEN \* e.keepaliveResponses, err = KeepAlive(...); return err
                 /\ last' = [op |-> op, e |-> e, err |-> "ErrKeepAlive",
                             lsn |-> "nil", bound |-> 0,
                             calls |-> <<GrantCall(ttl), KeepAliveCall(id)>>]
                 /\ handle' = [handle EXCEPT
                                 ![e] = ReturnedHandle("ErrKeepAlive")]
                 /\ UNCHANGED <<leaseID, stream, task>>
            ELSE \* e.leaseID = lease.ID; go consumeKeepaliveResponses(...)
                 /\ stream' = [stream EXCEPT ![e] = "open"]
                 /\ leaseID' = [leaseID EXCEPT ![e] = id]
                 /\ task' = [task EXCEPT ![e] = "running"]
                 /\ handle' = [handle EXCEPT ![e] = ReturnedHandle("nil")]
                 /\ last' = [op |-> op, e |-> e, err |-> "nil",
                             lsn |-> "nil", bound |-> 0,
                             calls |-> <<GrantCall(ttl), KeepAliveCall(id)>>]

\* NewExporter(ctx, etcdURL, ttl): etcd.NewFromURL, then initLease.
NewExporter(e) ==
    /\ ncalls < MaxCalls /\ ncalls' = ncalls + 1
    /\ UNCHANGED <<inflight, index>>
    /\ handle[e] = "none"
    /\ \A d \in Exporters : d < e => handle[d] # "none"
    /\ \E clientOK \in BOOLEAN, ttl \in TTLs, kaOK \in BOOLEAN :
        IF ~clientOK
        THEN /\ handle' = [handle EXCEPT ![e] = "nil"]
             /\ last' = [op |-> "NewExporter", e |-> e, err |-> "ErrClient",
                         lsn |-> "nil", bound |-> 0, calls |-> NoCall]
             /\ UNCHANGED <<leaseID, stream, task, leases>>
        ELSE initLease(e, ttl, kaOK, "NewExporter")
    /\ UNCHANGED <<path, acks, store, connected, sockets>>

\* NewFromDefault(ctx, ttl): autoconf.DefaultEtcdClient, then initLease.
NewFromDefault(e) ==
    /\ ncalls < MaxCalls /\ ncalls' = ncalls + 1
    /\ UNCHANGED <<inflight, index>>
    /\ handle[e] = "none"
    /\ \A d \in Exporters : d < e => handle[d] # "none"
    /\ \E clientOK \in BOOLEAN, ttl \in TTLs, kaOK \in BOOLEAN :
        IF ~clientOK
        THEN /\ handle' = [handle EXCEPT ![e] = "nil"]
             /\ last' = [op |-> "NewFromDefault", e |-> e, err |-> "ErrClient",
                         lsn |-> "nil", bound |-> 0, calls |-> NoCall]
             /\ UNCHANGED <<leaseID, stream, task, leases>>
        ELSE initLease(e, ttl, kaOK, "NewFromDefault")
    /\ UNCHANGED <<path, acks, store, connected, sockets>>

\* NewExporterFromClient(ctx, client, ttl): initLease on the given client.
NewExporterFromClient(e) ==
    /\ ncalls < MaxCalls /\ ncalls' = ncalls + 1
    /\ UNCHANGED <<inflight, index>>
    /\ handle[e] = "none"
    /\ \A d \in Exporters : d < e => handle[d] # "none"
    /\ \E ttl \in TTLs, kaOK \in BOOLEAN :
        initLease(e, ttl, kaOK, "NewExporterFromClient")
    /\ UNCHANGED <<path, acks, store, connected, sockets>>

\* -------------------------------------------------------- NewExportedPort
\* Mutant: the Put without etcd.WithLease.
PutLease_None(e) == NoLease

\* Mutant: a Put that goes without a lease once the exporter's has expired.
PutLease_Fallback(e) ==
    IF leaseID[e] # NoLease /\ leases[leaseID[e]] # "alive"
    THEN NoLease ELSE leaseID[e]

\* The lease Put attaches to the entry: etcd.WithLease(e.leaseID).
PutLease(e) == leaseID[e]

\* The error of Put when the store does not accept it.
PutError == IF ~connected THEN "ErrUnavailable" ELSE "ErrLeaseNotFound"

\* Mutant: a Put that only creates, and fails on a key that exists.
PutResult_CreateOnly(k, id) ==
    IF HasKey(k) /\ connected THEN "ErrKeyExists"
    ELSE IF PutAccepted(id) THEN "nil" ELSE PutError

\* What Put(path, value, WithLease(id)) returns: an entry that exists
\* already is overwritten, it is no error.
PutResult(k, id) == IF PutAccepted(id) THEN "nil" ELSE PutError

\* Mutant: e.path assigned before the Put's error is looked at.
PathAfterExport_BeforePut(e, err, k) == k

\* e.path after NewExportedPort: "e.path = path" comes after the return on
\* Put's error.
PathAfterExport(e, err, k) == IF err = "nil" THEN k ELSE path[e]

\* The socket table after net.Listen bound port p and Put returned err:
\* the listener is returned on success; on an error nil is returned and the
\* listener is not closed.  returned: whether a caller holds the listener.
SocketsAfterExport(p, err) ==
    sockets \cup {[port |-> p, returned |-> (err = "nil")]}

\* Mutant: the address that could not be bound is published all the same.
CallsAfterListenError_Put(e, hostport, service) ==
    <<PutCall(ExportPath(service, leaseID[e]), hostport, PutLease(e))>>

\* The calls NewExportedPort makes to the store once net.Listen has failed:
\* none, "return nil, err" comes before the path is formatted.
CallsAfterListenError(e, hostport, service) == NoCall

\* The store after a sequence of at most one Put.
StoreAfterCalls(calls, e) ==
    IF calls = NoCall \/ ~PutAccepted(calls[1].lease) THEN store
    ELSE StoreAfterPut(calls[1].key, calls[1].value, calls[1].lease, e)

\* Mutant: the exporter forgets a lease the store reports as not found.
LeaseIDAfterExport_ResetOnLoss(e, err) ==
    IF err = "ErrLeaseNotFound" THEN NoLease ELSE leaseID[e]

\* e.leaseID after NewExportedPort: the function reads the field (in the
\* path and in WithLease) and never assigns it.
LeaseIDAfterExport(e, err) == leaseID[e]

\* The body the three exporting calls share: NewExportedPort itself.
ExportPort(e, ip, service) ==
    LET hostport == ListenAddress(ip)
        ports == BindablePorts(hostport)
    IN  IF ports = {}
        THEN \* if l, err = net.Listen(network, hostport); err != nil
             LET calls == CallsAfterListenError(e, hostport, service)
             IN  /\ last' = [op |-> "NewExportedPort", e |-> e,
                             err |-> "ErrListen", lsn |-> "nil", bound |-> 0,
                             calls |-> calls]
                 /\ store' = StoreAfterCalls(calls, e)
                 /\ leaseID' = [leaseID EXCEPT
                                  ![e] = LeaseIDAfterExport(e, "ErrListen")]
                 /\ UNCHANGED <<path, sockets>>
        ELSE \E p \in ports :
             LET k == ExportPath(service, leaseID[e])
                 v == AddrString(p)
                 err == PutResult(k, PutLease(e))
             IN  /\ store' = IF err = "nil"
                             THEN StoreAfterPut(k, v, PutLease(e), e)
                             ELSE store
                 /\ leaseID' = [leaseID EXCEPT
                                  ![e] = LeaseIDAfterExport(e, err)]
                 /\ path' = [path EXCEPT ![e] = PathAfterExport(e, err, k)]
                 /\ sockets' = SocketsAfterExport(p, err)
                 /\ last' = [op |-> "NewExportedPort", e |-> e, err |-> err,
                             lsn |-> IF err = "nil" THEN "listener" ELSE "nil",
                             bound |-> p,
                             calls |-> <<PutCall(k, v, PutLease(e))>>]

NewExportedPort(e) ==
    /\ ncalls < MaxCalls /\ ncalls' = ncalls + 1
    /\ UNCHANGED <<inflight, index>>
    /\ handle[e] = "object"
    /\ \E ip \in Addresses, service \in Services :
        ExportPort(e, ip, service)
    /\ UNCHANGED <<handle, stream, acks, task, leases, connected>>

\* NewExportedTLSPort: NewExportedPort, then tls.NewListener around the
\* listener it returned; its error is returned with a nil listener.
NewExportedTLSPort(e) ==
    /\ ncalls < MaxCalls /\ ncalls' = ncalls + 1
    /\ UNCHANGED <<inflight, index>>
    /\ handle[e] = "object"
    /\ \E ip \in Addresses, service \in Services :
        ExportPort(e, ip, service)
    /\ UNCHANGED <<handle, stream, acks, task, leases, connected>>

\* ListenAndServeNamedHTTP: NewExportedPort on "tcp", then http.Serve on the
\* listener it returned; its error is returned.
ListenAndServeNamedHTTP(e) ==
    /\ ncalls < MaxCalls /\ ncalls' = ncalls + 1
    /\ UNCHANGED <<inflight, index>>
    /\ handle[e] = "object"
    /\ \E ip \in Addresses, service \in Services :
        ExportPort(e, ip, service)
    /\ UNCHANGED <<handle, stream, acks, task, leases, connected>>

\* ----------------------------------------------------------- UnexportPort
\* Mutant: UnexportPort without the test of the empty path.
UnexportCallsStore_Always(e) == TRUE

\* Whether UnexportPort goes to the store: "if len(e.path) == 0 return nil".
UnexportCallsStore(e) == Len(path[e]) # 0

\* Mutant: the Delete with etcd.WithPrefix on the directory of the services.
UnexportDeletes_Prefix(e) == {en.key : en \in store}

\* The keys UnexportPort's Delete removes: e.path alone, the call has no
\* option that widens it.
UnexportDeletes(e) == {path[e]}

\* Mutant: a Delete that reports a key that does not exist, as the Delete of
\* the store of the legacy variant does.
DeleteError_KeyNotFound(present) ==
    IF ~connected THEN "ErrUnavailable"
    ELSE IF present THEN "nil" ELSE "ErrKeyNotFound"

\* The error of Delete: only that of a store that cannot be reached; a key
\* that does not exist is deleted without an error.
DeleteError(present) == IF connected THEN "nil" ELSE "ErrUnavailable"

\* Mutant: an unexport that revokes the exporter's lease with the entry.
LeasesAfterUnexport_Revoke(e) ==
    IF leaseID[e] \in LeaseIDs /\ connected
    THEN [leases EXCEPT ![leaseID[e]] = "expired"]
    ELSE leases

\* The leases of the store after UnexportPort's Delete: the call sends
\* Delete alone, no Revoke, and does not touch the keepalive.
LeasesAfterUnexport(e) == leases

\* Mutant: an unexport that forgets the path once its Delete went through.
PathAfterUnexport_Cleared(e, err) == IF err = "nil" THEN <<>> ELSE path[e]

\* e.path after UnexportPort's Delete returned err: the function has no
\* assignment to e.path on either return.
PathAfterUnexport(e, err) == path[e]

UnexportPort(e) ==
    /\ ncalls < MaxCalls /\ ncalls' = ncalls + 1
    /\ UNCHANGED <<inflight, index>>
    /\ handle[e] = "object"
    /\ IF ~UnexportCallsStore(e)
       THEN /\ last' = [op |-> "UnexportPort", e |-> e, err |-> "nil",
                        lsn |-> "nil", bound |-> 0, calls |-> NoCall]
            /\ UNCHANGED <<store, path, leases>>
       ELSE LET err == DeleteError(HasKey(path[e]))
            IN  /\ store' = IF connected
                            THEN StoreAfterDelete(UnexportDeletes(e))
                            ELSE store
                /\ leases' = LeasesAfterUnexport(e)
                /\ path' = [path EXCEPT ![e] = PathAfterUnexport(e, err)]
                /\ last' = [op |-> "UnexportPort", e |-> e, err |-> err,
                            lsn |-> "nil", bound |-> 0,
                            calls |-> <<DeleteCall(path[e])>>]
    /\ UNCHANGED <<handle, leaseID, stream, acks, task, connected, sockets>>

\* ------------------------------------------- the store and the connection
\* The connection to the store is severed, and comes back.
Disconnect ==
    /\ UNCHANGED <<ncalls, inflight, index>>
    /\ connected
    /\ connected' = FALSE
    /\ last' = Idle
    /\ UNCHANGED <<handle, leaseID, path, stream, acks, task, leases, store,
                   sockets>>

Reconnect ==
    /\ UNCHANGED <<ncalls, inflight, index>>
    /\ ~connected
    /\ connected' = TRUE
    /\ last' = Idle
    /\ UNCHANGED <<handle, leaseID, path, stream, acks, task, leases, store,
                   sockets>>

\* A lease is renewed while a keepalive stream for it is open and reaches
\* the store.
Renewed(l) ==
    connected /\ \E e \in Exporters : leaseID[e] = l /\ stream[e] = "open"

\* What the store keeps when lease l expires: the entries not attached to it.
StoreAfterExpiry(l) == {en \in store : en.lease # l}

\* A lease that is no longer renewed expires; the store removes the entries
\* attached to it.
LeaseExpire(l) ==
    /\ UNCHANGED <<ncalls, inflight, index>>
    /\ leases[l] = "alive"
    /\ ~Renewed(l)
    /\ leases' = [leases EXCEPT ![l] = "expired"]
    /\ store' = StoreAfterExpiry(l)
    /\ last' = Idle
    /\ UNCHANGED <<handle, leaseID, path, stream, acks, task, connected,
                   sockets>>

\* The client closes the keepalive channel of an expired lease.
StreamClose(e) ==
    /\ UNCHANGED <<ncalls, inflight, index>>
    /\ stream[e] = "open"
    /\ leases[leaseID[e]] = "expired"
    /\ stream' = [stream EXCEPT ![e] = "closed"]
    /\ last' = Idle
    /\ UNCHANGED <<handle, leaseID, path, acks, task, leases, store,
                   connected, sockets>>

\* A keepalive response arrives and is put on the channel, if it has room.
SendAck(e) ==
    /\ UNCHANGED <<ncalls, inflight, index>>
    /\ stream[e] = "open"
    /\ connected
    /\ leases[leaseID[e]] = "alive"
    /\ acks[e] < MaxAcks
    /\ acks' = [acks EXCEPT ![e] = @ + 1]
    /\ last' = Idle
    /\ UNCHANGED <<handle, leaseID, path, stream, task, leases, store,
                   connected, sockets>>

\* consumeKeepaliveResponses: "for _ = range ch {}" takes one response ...
RecvAck(e) ==
    /\ UNCHANGED <<ncalls, inflight, index>>
    /\ task[e] = "running"
    /\ acks[e] > 0
    /\ acks' = [acks EXCEPT ![e] = @ - 1]
    /\ last' = Idle
    /\ UNCHANGED <<handle, leaseID, path, stream, task, leases, store,
                   connected, sockets>>

\* Mutant: a consumer that returns when the channel is closed, whatever is
\* left in it.
ConsumerReturns_OnClose(e) == stream[e] = "closed"

\* When "for _ = range ch" ends: the channel is closed and has been drained.
ConsumerReturns(e) == stream[e] = "closed" /\ acks[e] = 0

\* ... and returns once the channel is closed and empty.
TaskExit(e) ==
    /\ UNCHANGED <<ncalls, inflight, index>>
    /\ task[e] = "running"
    /\ ConsumerReturns(e)
    /\ task' = [task EXCEPT ![e] = "done"]
    /\ last' = Idle
    /\ UNCHANGED <<handle, leaseID, path, stream, acks, leases, store,
                   connected, sockets>>

Next ==
    \/ \E e \in Exporters : NewExporter(e)
    \/ \E e \in Exporters : NewFromDefault(e)
    \/ \E e \in Exporters : NewExporterFromClient(e)
    \/ \E e \in Exporters : NewExportedPort(e)
    \/ \E e \in Exporters : NewExportedTLSPort(e)
    \/ \E e \in Exporters : ListenAndServeNamedHTTP(e)
    \/ \E e \in Exporters : UnexportPort(e)
    \/ Disconnect
    \/ Reconnect
    \/ \E l \in LeaseIDs : LeaseExpire(l)
    \/ \E e \in Exporters : StreamClose(e)
    \/ \E e \in Exporters : TaskExit(e)

\* The calls of the API, the leases and the connection.  The responses on
\* the keepalive channels are left to SpecRenewal: no call reads them.
Spec == Init /\ [][Next]_vars

\* The life of the keepalive channels: the constructors that open them, the
\* store that fills them, the goroutines that drain them.  The exports are
\* left to Spec: they read and write nothing of the channels.
NextRenewal ==
    \/ \E e \in Exporters : NewExporter(e)
    \/ \E e \in Exporters : NewFromDefault(e)
    \/ \E e \in Exporters : NewExporterFromClient(e)
    \/ Disconnect
    \/ Reconnect
    \/ \E l \in LeaseIDs : LeaseExpire(l)
    \/ \E e \in Exporters : StreamClose(e)
    \/ \E e \in Exporters : SendAck(e)
    \/ \E e \in Exporters : RecvAck(e)
    \/ \E e \in Exporters : TaskExit(e)

\* The scheduler runs a goroutine that can take a step: the consumer is
\* not left waiting forever while a response or the close is there for it.
SpecRenewal ==
    /\ Init
    /\ [][NextRenewal]_vars
    /\ \A e \in Exporters : WF_vars(RecvAck(e)) /\ WF_vars(TaskExit(e))

\* ================================================== the legacy variant
\* The exporter over the store of go-etcd (part_001): no lease, the store
\* names the entry.  handle[e] = "noconn": an exporter whose client is nil.

\* The directory of a service: fmt.Sprintf("/ns/service/%s", servicename)
LegacyDir(servicename) == <<"ns", "service", servicename>>

\* The key AddChild creates: the directory and a name the store chooses, a
\* number that grows with every write (here the number itself).
ChildKey(dir) == dir \o <<index + 1>>

\* The address handed to net.Listen: the host of ip, or ip as it is when it
\* is no host:port pair, joined with port "0".
LegacyListenAddress(ip) ==
    JoinHostPort(IF SplitHostPortOK(ip) THEN <<ip[1]>> ELSE ip, 0)

AddChildCall(dir, v) == [call |-> "AddChild", key |-> dir, value |-> v]

\* The value the legacy NewExportedPort hands to AddChild for a listener
\* bound to port p: hostport, the string it asked net.Listen for.
LegacyPublished(hostport, p) == hostport

\* Delete of the legacy store: a key that does not exist is an error.
LegacyDeleteError(present) ==
    IF ~connected THEN "ErrUnavailable"
    ELSE IF present THEN "nil" ELSE "ErrKeyNotFound"

\* NewExporter(servers): etcd.NewClient, which returns no error.
LegacyNewExporter(e) ==
    /\ ncalls < MaxCalls /\ ncalls' = ncalls + 1
    /\ handle[e] = "none"
    /\ \A d \in Exporters : d < e => handle[d] # "none"
    /\ handle' = [handle EXCEPT ![e] = "object"]
    /\ last' = [op |-> "NewExporter", e |-> e, err |-> "nil", lsn |-> "nil",
                bound |-> 0, calls |-> NoCall]
    /\ UNCHANGED <<leaseID, path, stream, acks, task, leases, store,
                   connected, sockets, inflight, index>>

\* NewTLSExporter(servers, cert, key, ca): "return self, err", the exporter
\* is returned with the error of etcd.NewTLSClient and a nil client.
NewTLSExporter(e) ==
    /\ ncalls < MaxCalls /\ ncalls' = ncalls + 1
    /\ handle[e] = "none"
    /\ \A d \in Exporters : d < e => handle[d] # "none"
    /\ \E clientOK \in BOOLEAN :
        /\ handle' = [handle EXCEPT
                        ![e] = IF clientOK THEN "object" ELSE "noconn"]
        /\ last' = [op |-> "NewTLSExporter", e |-> e,
                    err |-> IF clientOK THEN "nil" ELSE "ErrClient",
                    lsn |-> "nil", bound |-> 0, calls |-> NoCall]
    /\ UNCHANGED <<leaseID, path, stream, acks, task, leases, store,
                   connected, sockets, inflight, index>>

\* The body of the legacy NewExportedPort.
LegacyExportPort(e, ip, servicename) ==
    LET dir == LegacyDir(servicename)
        hostport == LegacyListenAddress(ip)
        ports == BindablePorts(hostport)
    IN  IF ports = {}
        THEN \* if l, err = net.Listen(network, hostport); err != nil
             /\ last' = [op |-> "NewExportedPort", e |-> e,
                         err |-> "ErrListen", lsn |-> "nil", bound |-> 0,
                         calls |-> NoCall]
             /\ UNCHANGED <<path, store, sockets, index>>
        ELSE \E p \in ports :
             LET v == LegacyPublished(hostport, p)
                 err == IF handle[e] = "noconn" THEN "panic"
                        ELSE IF connected THEN "nil" ELSE "ErrUnavailable"
                 k == ChildKey(dir)
             IN  /\ store' = IF err = "nil"
                             THEN StoreAfterPut(k, v, NoLease, e)
                             ELSE store
                 /\ index' = IF err = "nil" THEN index + 1 ELSE index
                 \* if resp.Node != nil { self.path = resp.Node.Key }
                 /\ path' = [path EXCEPT
                                ![e] = IF err = "nil" THEN k ELSE @]
                 /\ sockets' = SocketsAfterExport(p, err)
                 /\ last' = [op |-> "NewExportedPort", e |-> e, err |-> err,
                             lsn |-> IF err = "nil" THEN "listener" ELSE "nil",
                             bound |-> p,
                             calls |-> IF err = "panic" THEN NoCall
                                       ELSE <<AddChildCall(dir, v)>>]

LegacyNewExportedPort(e) ==
    /\ ncalls < MaxCalls /\ ncalls' = ncalls + 1
    /\ handle[e] \in {"object", "noconn"}
    /\ \E ip \in Addresses, servicename \in Services :
        LegacyExportPort(e, ip, servicename)
    /\ UNCHANGED <<handle, leaseID, stream, acks, task, leases, connected,
                   inflight>>

\* The legacy NewExportedTLSPort: NewExportedPort, then tls.NewListener.
LegacyNewExportedTLSPort(e) ==
    /\ ncalls < MaxCalls /\ ncalls' = ncalls + 1
    /\ handle[e] \in {"object", "noconn"}
    /\ \E ip \in Addresses, servicename \in Services :
        LegacyExportPort(e, ip, servicename)
    /\ UNCHANGED <<handle, leaseID, stream, acks, task, leases, connected,
                   inflight>>

\* The legacy UnexportPort: Delete(self.path, false) unless the path is
\* empty.  (An exporter with a nil client has no path: its AddChild never
\* returned.)
LegacyUnexportPort(e) ==
    /\ ncalls < MaxCalls /\ ncalls' = ncalls + 1
    /\ handle[e] \in {"object", "noconn"}
    /\ IF Len(path[e]) = 0
       THEN /\ last' = [op |-> "UnexportPort", e |-> e, err |-> "nil",
                        lsn |-> "nil", bound |-> 0, calls |-> NoCall]
            /\ UNCHANGED <<store, index>>
       ELSE LET err == LegacyDeleteError(HasKey(path[e]))
            IN  /\ store' = IF err = "nil"
                            THEN StoreAfterDelete({path[e]})
                            ELSE store
                /\ index' = IF err = "nil" THEN index + 1 ELSE index
                /\ last' = [op |-> "UnexportPort", e |-> e, err |-> err,
                            lsn |-> "nil", bound |-> 0,
                            calls |-> <<DeleteCall(path[e])>>]
    /\ UNCHANGED <<handle, leaseID, path, stream, acks, task, leases,
                   connected, sockets, inflight>>

NextLegacy ==
    \/ \E e \in Exporters : LegacyNewExporter(e)
    \/ \E e \in Exporters : NewTLSExporter(e)
    \/ \E e \in Exporters : LegacyNewExportedPort(e)
    \/ \E e \in Exporters : LegacyNewExportedTLSPort(e)
    \/ \E e \in Exporters : LegacyUnexportPort(e)
    \/ Disconnect
    \/ Reconnect

SpecLegacy == Init /\ [][NextLegacy]_vars

\* ============================================ callers on several goroutines
\* NewExportedPort called from goroutines that share exporters, one
\* statement of the function per step.  ServiceExporter has no lock and the
\* function takes none.  In SpecThreads last is the record of the latest
\* call that reached the store, or of the latest return with an error.

\* The goroutines inside NewExportedPort of exporter e that have done their
\* Put and not yet "e.path = path".
Assigning(e) == {t \in Threads : inflight[t].pc = "stored" /\ inflight[t].e = e}

\* The values "e.path = path" of goroutine t can leave in e.path: its own
\* key, or, the write being unsynchronized, the key of a goroutine that is
\* writing the field at the same time.
PathAfterRace(t) ==
    {ExportPath(inflight[u].service, leaseID[inflight[u].e]) :
        u \in Assigning(inflight[t].e)}

\* net.SplitHostPort, net.Listen: the call begins.
ThreadListen(t, e) ==
    /\ ncalls < MaxCalls /\ ncalls' = ncalls + 1
    /\ inflight[t].pc = "idle"
    /\ handle[e] = "object"
    /\ \E ip \in Addresses, service \in Services :
        LET hostport == ListenAddress(ip)
            ports == BindablePorts(hostport)
        IN  IF ports = {}
            THEN /\ last' = [op |-> "NewExportedPort", e |-> e,
                             err |-> "ErrListen", lsn |-> "nil",
                             bound |-> 0, calls |-> NoCall]
                 /\ UNCHANGED <<inflight, sockets>>
            ELSE \E p \in ports :
                 /\ inflight' = [inflight EXCEPT ![t] =
                        [pc |-> "bound", e |-> e, service |-> service,
                         port |-> p]]
                 /\ sockets' = sockets \cup {[port |-> p, returned |-> FALSE]}
                 /\ UNCHANGED last
    /\ UNCHANGED <<handle, leaseID, path, stream, acks, task, leases, store,
                   connected, index>>

\* fmt.Sprintf, e.conn.Put; on its error "return nil, err".
ThreadPut(t) ==
    /\ inflight[t].pc = "bound"
    /\ LET e == inflight[t].e
           k == ExportPath(inflight[t].service, leaseID[e])
           v == AddrString(inflight[t].port)
           err == PutResult(k, PutLease(e))
       IN  /\ store' = IF err = "nil"
                       THEN StoreAfterPut(k, v, PutLease(e), e)
                       ELSE store
           /\ inflight' = [inflight EXCEPT ![t] =
                  IF err = "nil" THEN [@ EXCEPT !.pc = "stored"]
                  ELSE NotCalling]
           /\ last' = [op |-> "NewExportedPort", e |-> e, err |-> err,
                       lsn |-> "nil", bound |-> inflight[t].port,
                       calls |-> <<PutCall(k, v, PutLease(e))>>]
    /\ UNCHANGED <<handle, leaseID, path, stream, acks, task, leases,
                   connected, sockets, ncalls, index>>

\* e.path = path; return l, nil
ThreadAssign(t) ==
    /\ inflight[t].pc = "stored"
    /\ \E k \in PathAfterRace(t) :
        path' = [path EXCEPT ![inflight[t].e] = k]
    /\ sockets' = (sockets \ {[port |-> inflight[t].port,
                               returned |-> FALSE]})
                    \cup {[port |-> inflight[t].port, returned |-> TRUE]}
    /\ inflight' = [inflight EXCEPT ![t] = NotCalling]
    /\ UNCHANGED <<handle, leaseID, stream, acks, task, leases, store,
                   connected, ncalls, index, last>>

NextThreads ==
    \/ \E e \in Exporters : NewExporterFromClient(e)
    \/ \E t \in Threads, e \in Exporters : ThreadListen(t, e)
    \/ \E t \in Threads : ThreadPut(t)
    \/ \E t \in Threads : ThreadAssign(t)
    \/ Disconnect
    \/ Reconnect

SpecThreads == Init /\ [][NextThreads]_vars

\* ====================================================== the properties
Constructors == {"NewExporter", "NewFromDefault", "NewExporterFromClient"}

\* A step that is a call of the API by exporter e.
ConstructorStep(e) ==
    ncalls' = ncalls + 1 /\ last'.op \in Constructors /\ last'.e = e
ExportStep(e) ==
    ncalls' = ncalls + 1 /\ last'.op = "NewExportedPort" /\ last'.e = e
UnexportStep(e) ==
    ncalls' = ncalls + 1 /\ last'.op = "UnexportPort" /\ last'.e = e

\* C1: when the lease grant or the keepalive setup fails in a constructor,
\* no exporter handle is returned to the caller (the handle is nil).
C1_NoHandleOnInitError ==
    \A e \in Exporters :
        (last.op \in Constructors /\ last.e = e
            /\ last.err \in {"ErrGrant", "ErrKeepAlive"})
        => handle[e] = "nil"

\* C2: when Put fails in NewExportedPort after the socket was bound, the
\* listener returned is nil and the socket bound by the call is closed.
\* (Stated for exporters whose initialization succeeded.)
C2_NoSocketLeftOnPutError ==
    (last.op = "NewExportedPort" /\ last.err # "nil" /\ last.bound # 0
        /\ leaseID[last.e] # NoLease)
    => (last.lsn = "nil" /\ last.bound \notin UsedPorts)

\* C3: a constructor with ttl < 5 is rejected with an error before any call
\* to the store (no Grant is sent); with ttl >= 5 and a store that can be
\* reached the lease is granted and its id is not empty.
C3_TTLValidated ==
    [][\A e \in Exporters : ConstructorStep(e) =>
        \A i \in DOMAIN last'.calls :
            last'.calls[i].call = "Grant" =>
                /\ last'.calls[i].ttl >= MinTTL
                /\ connected =>
                    /\ last'.err # "ErrGrant"
                    /\ leases' # leases
                    /\ Len(last'.calls) = 2
                    /\ last'.calls[2].lease # NoLease]_vars

\* Whether a set of entries has one under key k.
Holds(st, k) == \E en \in st : en.key = k

\* The entries exporter e wrote that the store holds.
EntriesOf(e) == {en \in store : en.writer = e}

\* C4: once the lease of an exporter has expired, the store holds no entry
\* that exporter published, in this and in every later state, although the
\* exporter did not call UnexportPort.
C4_ExpiredLeaseLeavesNoEntry ==
    \A e \in Exporters :
        (leaseID[e] # NoLease /\ leases[leaseID[e]] = "expired")
        => EntriesOf(e) = {}

\* An exporter made two calls (its constructor and one export that was
\* published), its lease expired and the entry is gone.
C4_Witness ==
    \E e \in Exporters :
        /\ ncalls = 2
        /\ leaseID[e] # NoLease
        /\ leases[leaseID[e]] = "expired"
        /\ path[e] # <<>>
        /\ ~HasKey(path[e])

\* C5: exporters that share the store never overwrite each other's entries:
\* the key an export writes is not the key of an entry of another exporter,
\* so every entry of the others stays in the store with its value.
C5_NoOverwriteBetweenExporters ==
    [][\A e \in Exporters : ExportStep(e) =>
        \A en \in store : en.writer # e => en \in store']_vars

\* C6: the path of an exporter is the key its last successful export wrote;
\* UnexportPort sends Delete for that key and nothing else, and leaves the
\* entries under every other key in the store.
C6_UnexportTargetsLastExport ==
    [][\A e \in Exporters :
        /\ (ExportStep(e) /\ last'.err = "nil") =>
            /\ path'[e] = last'.calls[1].key
            /\ Holds(store', path'[e])
        /\ path'[e] # path[e] => (ExportStep(e) /\ last'.err = "nil")
        /\ UnexportStep(e) =>
            /\ last'.calls \in {NoCall, <<DeleteCall(path[e])>>}
            /\ \A en \in store : en.key # path[e] => en \in store']_vars

\* UnexportPort deleted the key of the last export while the entry of an
\* earlier export of the same exporter, under another service, is kept.
C6_Witness ==
    /\ last.op = "UnexportPort"
    /\ last.err = "nil"
    /\ last.calls # NoCall
    /\ ~HasKey(path[last.e])
    /\ leaseID[last.e] # NoLease
    /\ \E en \in store : en.writer = last.e /\ en.lease = leaseID[last.e]

\* C7: an export under a key the exporter has published already succeeds
\* whenever the store accepts the Put, and the entry then holds the new
\* address; UnexportPort deletes that key and leaves every socket open.
C7_SecondExportOverwrites ==
    [][\A e \in Exporters :
        /\ ( /\ ExportStep(e)
             /\ last'.bound # 0
             /\ HasKey(last'.calls[1].key)
             /\ PutAccepted(leaseID[e]) ) =>
            /\ last'.err = "nil"
            /\ last'.lsn # "nil"
            /\ {en.value : en \in {x \in store' :
                    x.key = last'.calls[1].key}}
                 = {AddrString(last'.bound)}
        /\ UnexportStep(e) =>
            /\ sockets' = sockets
            /\ (last'.err = "nil" /\ last'.calls # NoCall)
                => ~Holds(store', path[e])]_vars

\* One leased exporter exported twice under one key, both listeners were
\* returned, and UnexportPort then deleted the key: both sockets are open.
C7_Witness ==
    /\ last.op = "UnexportPort"
    /\ last.err = "nil"
    /\ last.calls # NoCall
    /\ ncalls = 4
    /\ leaseID[last.e] # NoLease
    /\ leases[leaseID[last.e]] = "alive"
    /\ Cardinality({s \in sockets : s.returned}) = 2
    /\ store = {}

\* C8: a call of NewExportedPort that fails, at the bind or at the Put,
\* leaves the path of the exporter as it was.
C8_PathUnchangedOnFailure ==
    [][\A e \in Exporters :
        (ExportStep(e) /\ last'.err # "nil") => path' = path]_vars

\* An export failed at the Put, for a key other than the one the exporter
\* published before: the path is still the earlier key.
C8_Witness ==
    /\ last.op = "NewExportedPort"
    /\ last.err \in {"ErrUnavailable", "ErrLeaseNotFound"}
    /\ path[last.e] # <<>>
    /\ path[last.e] # last.calls[1].key

\* C9: UnexportPort on an exporter whose path is empty returns nil and sends
\* nothing to the store.
C9_UnexportWithoutExportIsNoOp ==
    [][\A e \in Exporters :
        (UnexportStep(e) /\ path[e] = <<>>) =>
            /\ last'.err = "nil"
            /\ last'.calls = NoCall
            /\ store' = store]_vars

\* UnexportPort returned nil on an exporter with no path while the store
\* held an entry and could not be reached.
C9_Witness ==
    /\ last.op = "UnexportPort"
    /\ path[last.e] = <<>>
    /\ last.err = "nil"
    /\ ~connected
    /\ store # {}

\* C10: UnexportPort returns the same nil whether the key of its path is in
\* the store or is gone already (deleted before, or removed with the lease),
\* provided the store can be reached; the key is not in the store afterwards.
C10_UnexportIdempotent ==
    [][\A e \in Exporters :
        (UnexportStep(e) /\ path[e] # <<>> /\ connected) =>
            /\ last'.err = "nil"
            /\ ~Holds(store', path[e])]_vars

\* UnexportPort returned nil for a key that the expiry of the lease had
\* removed before.
C10_Witness ==
    /\ last.op = "UnexportPort"
    /\ last.calls # NoCall
    /\ last.err = "nil"
    /\ leaseID[last.e] # NoLease
    /\ leases[leaseID[last.e]] = "expired"

\* C11: UnexportPort leaves the lease alone: the lease identifier, the
\* keepalive stream, the renewal task and the leases of the store are what
\* they were, a lease that was being renewed still is, and an export by the
\* same exporter right after it, whose bind succeeds and whose Put the store
\* accepts, succeeds and publishes under the same lease.
C11_UnexportKeepsLease ==
    [][\A e \in Exporters :
        /\ UnexportStep(e) =>
            /\ leaseID' = leaseID
            /\ stream' = stream
            /\ task' = task
            /\ acks' = acks
            /\ leases' = leases
            /\ Renewed(leaseID[e]) => Renewed(leaseID[e])'
        /\ ( /\ last.op = "UnexportPort" /\ last.e = e
             /\ ExportStep(e)
             /\ last'.bound # 0
             /\ PutAccepted(leaseID[e]) ) =>
            /\ last'.err = "nil"
            /\ last'.calls[1].lease = leaseID[e]
            /\ \E en \in store' :
                en.key = path'[e] /\ en.lease = leaseID[e]]_vars

\* UnexportPort deleted the entry of an exporter whose lease is alive and
\* renewed over an open stream, with the renewal task running.
C11_Witness ==
    /\ last.op = "UnexportPort"
    /\ last.calls # NoCall
    /\ last.err = "nil"
    /\ leaseID[last.e] # NoLease
    /\ leases[leaseID[last.e]] = "alive"
    /\ Renewed(leaseID[last.e])
    /\ task[last.e] = "running"
    /\ ncalls = 3

\* The errors of a call to the store.
StoreErrors == {"ErrUnavailable", "ErrLeaseNotFound"}

\* The last call was NewExportedPort on an exporter whose lease had expired.
ExportAfterLeaseLost ==
    /\ last.op = "NewExportedPort"
    /\ leaseID[last.e] # NoLease
    /\ leases[leaseID[last.e]] = "expired"

\* C13 as it is stated: every NewExportedPort issued after the lease was
\* lost returns an error of the store.
C13_ExportAfterLossIsStoreError ==
    ExportAfterLeaseLost => last.err \in StoreErrors

\* C13: a closed keepalive stream blocks neither NewExportedPort nor
\* UnexportPort, and every NewExportedPort issued after the lease was lost
\* returns an error and no listener: the error of net.Listen when the bind
\* fails, an error of the store's Put whenever the bind succeeds.
C13_ExportAfterLossFails ==
    /\ \A e \in Exporters :
        (stream[e] = "closed" /\ ncalls < MaxCalls) =>
            /\ ENABLED NewExportedPort(e)
            /\ ENABLED UnexportPort(e)
    /\ ExportAfterLeaseLost =>
        /\ last.err # "nil"
        /\ last.lsn = "nil"
        /\ last.bound = 0 => last.err = "ErrListen" /\ last.calls = NoCall
        /\ last.bound # 0 =>
            /\ last.err \in StoreErrors
            /\ Len(last.calls) = 1 /\ last.calls[1].call = "Put"

\* NewExportedPort bound a port on an exporter whose lease had expired and
\* whose stream was closed, while the store could be reached.
C13_Witness ==
    /\ ExportAfterLeaseLost
    /\ stream[last.e] = "closed"
    /\ last.bound # 0
    /\ connected
    /\ last.err = "ErrLeaseNotFound"

\* C15: when the bind fails NewExportedPort returns the error of net.Listen
\* and a nil listener, sends nothing to the store (no Put), binds nothing
\* in a second attempt, and leaves the store and the path as they were.
C15_BindFailureSurfaced ==
    [][\A e \in Exporters :
        (ExportStep(e) /\ last'.bound = 0) =>
            /\ last'.err = "ErrListen"
            /\ last'.lsn = "nil"
            /\ last'.calls = NoCall
            /\ store' = store
            /\ sockets' = sockets
            /\ path' = path]_vars

\* NewExportedPort failed at the bind on an exporter with a live lease and
\* a store that would have accepted the Put.
C15_Witness ==
    /\ last.op = "NewExportedPort"
    /\ last.err = "ErrListen"
    /\ last.bound = 0
    /\ leaseID[last.e] # NoLease
    /\ PutAccepted(leaseID[last.e])

\* C16: the lease identifier of an exporter changes only in a constructor
\* that returns no error, from empty to the id the store granted; no export,
\* unexport, step of the renewal task or expiry of a lease changes it.
C16_LeaseIDAssignedOnce ==
    [][\A e \in Exporters :
        leaseID'[e] # leaseID[e] =>
            /\ ConstructorStep(e)
            /\ leaseID[e] = NoLease
            /\ last'.err = "nil"
            /\ leaseID'[e] = last'.calls[2].lease]_vars

\* An exporter exported, lost its lease, its stream closed and its task
\* returned, and an export then failed on the lease: the id is still set.
C16_Witness ==
    /\ last.op = "NewExportedPort"
    /\ last.err = "ErrLeaseNotFound"
    /\ leaseID[last.e] # NoLease
    /\ stream[last.e] = "closed"
    /\ task[last.e] = "done"
    /\ path[last.e] # <<>>

\* C18: every entry in the store is attached to a lease that is not empty,
\* that the store granted to the exporter that wrote the entry, and for
\* which that exporter started a keepalive.
C18_EntriesAreLeased ==
    \A en \in store :
        /\ en.lease # NoLease
        /\ leaseID[en.writer] = en.lease
        /\ stream[en.writer] # "nil"

\* C19: UnexportPort never changes the path, whether its Delete succeeds or
\* fails; an exporter with a path sends Delete for it at every UnexportPort,
\* so an UnexportPort right after another sends the same Delete again.
C19_UnexportKeepsPath ==
    [][\A e \in Exporters :
        /\ UnexportStep(e) => path' = path
        /\ (UnexportStep(e) /\ path[e] # <<>>) =>
            last'.calls = <<DeleteCall(path[e])>>
        /\ ( /\ last.op = "UnexportPort" /\ last.e = e
             /\ last.calls # NoCall
             /\ UnexportStep(e) ) => last'.calls = last.calls]_vars

\* UnexportPort deleted the key of its path: the key is gone from the
\* store, the lease is alive, and the path still names the key.
C19_Witness ==
    /\ last.op = "UnexportPort"
    /\ last.err = "nil"
    /\ last.calls = <<DeleteCall(path[last.e])>>
    /\ connected
    /\ ~HasKey(path[last.e])
    /\ leaseID[last.e] # NoLease
    /\ leases[leaseID[last.e]] = "alive"
    /\ ncalls = 4

\* C20: once the lease of an exporter has expired, the exporter keeps the id
\* of that lease, the lease stays expired, no call of the exporter sends
\* Grant or KeepAlive, a closed stream is not reopened and a task that
\* returned is not restarted; every NewExportedPort of the exporter returns
\* an error, and the store holds no entry the exporter wrote.
C20_NoLeaseReacquired ==
    [][\A e \in Exporters :
        (leaseID[e] # NoLease /\ leases[leaseID[e]] = "expired") =>
            /\ leaseID'[e] = leaseID[e]
            /\ leases'[leaseID[e]] = "expired"
            /\ stream[e] = "closed" => stream'[e] = "closed"
            /\ task[e] = "done" => task'[e] = "done"
            /\ ~ConstructorStep(e)
            /\ (ExportStep(e) \/ UnexportStep(e)) =>
                \A i \in DOMAIN last'.calls :
                    last'.calls[i].call \notin {"Grant", "KeepAlive"}
            /\ ExportStep(e) => last'.err # "nil" /\ last'.lsn = "nil"
            /\ \A en \in store' : en.writer # e]_vars

\* Two exports of an exporter failed one after the other on its expired
\* lease, with the store within reach, and the store holds nothing of it.
C20_Witness ==
    /\ ExportAfterLeaseLost
    /\ last.err = "ErrLeaseNotFound"
    /\ Cardinality({s \in sockets : ~s.returned}) = 2
    /\ handle = [e \in Exporters |-> IF e = 1 THEN "object" ELSE "none"]
    /\ EntriesOf(last.e) = {}

\* C14: the renewal task takes every response off the keepalive channel and
\* looks at none: while it runs it is ready to receive whatever the channel
\* holds, so a full channel gets room again and its writer is not blocked;
\* the task returns only when the channel is closed and drained, and once
\* the channel is closed the task does return.
C14_RenewalTaskDrainsAndExits ==
    /\ [](\A e \in Exporters :
            /\ task[e] = "done" => (stream[e] = "closed" /\ acks[e] = 0)
            /\ stream[e] = "open" => task[e] = "running"
            /\ (task[e] = "running" /\ acks[e] > 0) => ENABLED RecvAck(e))
    /\ \A e \in Exporters : (acks[e] = MaxAcks) ~> (acks[e] < MaxAcks)
    /\ \A e \in Exporters : (stream[e] = "closed") ~> (task[e] = "done")

\* The channel of an exporter was closed with a response still in it, and
\* the task is running.
C14_Witness ==
    \E e \in Exporters :
        stream[e] = "closed" /\ acks[e] > 0 /\ task[e] = "running"

\* C12: the value a successful export writes to the store is the address of
\* the listener it returns, the host with the port that was bound; the port
\* published for a bare host is the one the platform assigned, never 0.
C12_PublishedAddressIsBound ==
    (last.op = "NewExportedPort" /\ last.err = "nil") =>
        /\ last.calls[1].value = AddrString(last.bound)
        /\ last.calls[1].value[3] # 0

\* No goroutine is inside NewExportedPort of exporter e.
Quiescent(e) == \A t \in Threads : inflight[t].e # e

\* C17: the exports of one exporter are totally ordered, also when they are
\* called from several goroutines: once every call has returned, the path of
\* the exporter is the key of the export whose Put reached the store last.
\* (Stated for exporters whose initialization succeeded.)
C17_PathIsLastPut ==
    ( /\ last.op = "NewExportedPort" /\ last.err = "nil"
      /\ leaseID[last.e] # NoLease
      /\ Quiescent(last.e) ) => path[last.e] = last.calls[1].key

====
